---- MODULE Spec2Model ----
(***************************************************************************)
(* A model of the Ore framework's component rendering engine:              *)
(*   classes/Vue.js     the assignment store, the SSR render pipeline, the *)
(*                      temp-file module loader, the document assembler;   *)
(*   classes/Router.js  Router.route, one call per HTTP request.           *)
(* Strings that the code inspects character by character (templates,       *)
(* component names, folder ids, hex ids) are sequences of one-character    *)
(* strings.                                                                *)
(***************************************************************************)
EXTENDS Integers, Sequences, FiniteSets, TLC

(***************************************************************************)
(* Bounds of the model.                                                    *)
(***************************************************************************)
\* Longest template the resolver is checked on, in characters.
MaxTplLen == 6

\* Objects returned by getAll() that a caller of the store API holds at once.
MaxHeld == 2

\* Calls of the store API in one run of the store specification.
MaxCalls == 4

\* Documents assembled in one run of the document specification.
MaxDocs == 2

\* Largest value of the millisecond clock (Date.now()), which starts at 0.
MaxClock == 1

\* Longest c value of a request to /ore/component.js, the folder ids aside.
MaxIdLen == 3

\* Longest compiled script compileForClient is checked on, in lexemes.
MaxScriptLen == 6

\* Calls of _connect() in one run of the database specification.
MaxConnects == 3

\* The longest component name converted.
MaxNameLen == 4

\* The most segments in the path of a request for a static file.
MaxPathLen == 4

(***************************************************************************)
(* Characters.                                                             *)
(***************************************************************************)
UpperSeq ==
  <<"A","B","C","D","E","F","G","H","I","J","K","L","M",
    "N","O","P","Q","R","S","T","U","V","W","X","Y","Z">>

LowerSeq ==
  <<"a","b","c","d","e","f","g","h","i","j","k","l","m",
    "n","o","p","q","r","s","t","u","v","w","x","y","z">>

DigitSeq == <<"0","1","2","3","4","5","6","7","8","9">>

Range(s) == { s[i] : i \in DOMAIN s }

\* [A-Z]
IsUpper(c) == c \in Range(UpperSeq)

\* [a-z0-9]
IsLowerOrDigit(c) == c \in Range(LowerSeq) \cup Range(DigitSeq)

\* [a-zA-Z0-9]
IsAlnum(c) == IsUpper(c) \/ IsLowerOrDigit(c)

\* String.prototype.toLowerCase on one character.
ToLowerChar(c) ==
  IF IsUpper(c)
    THEN LowerSeq[CHOOSE i \in DOMAIN UpperSeq : UpperSeq[i] = c]
    ELSE c

\* String.prototype.toLowerCase.
ToLowerCase(s) == [ i \in DOMAIN s |-> ToLowerChar(s[i]) ]

(***************************************************************************)
(* compNameToFolderId: name.replace(/([a-z0-9])([A-Z])/g, '$1-$2')         *)
(*                         .toLowerCase()                                  *)
(* The global replace scans from the left; a match consumes both of its    *)
(* characters and the scan resumes behind it.                              *)
(***************************************************************************)
\* A replace that matches nowhere.
MutHyphenateNowhere(name, i) == name

RECURSIVE HyphenateFrom(_, _)
HyphenateFrom(name, i) ==
  IF i > Len(name) THEN <<>>
  ELSE IF i < Len(name) /\ IsLowerOrDigit(name[i]) /\ IsUpper(name[i + 1])
    THEN <<name[i], "-", name[i + 1]>> \o HyphenateFrom(name, i + 2)
    ELSE <<name[i]>> \o HyphenateFrom(name, i + 1)

compNameToFolderId(name) == ToLowerCase(HyphenateFrom(name, 1))

\* scanSubComponents: the loop of re.exec over the global regular expression
\* "<" [A-Z] [a-zA-Z0-9]... (greedy), adding m[1] to a Set (which keeps
\* first-insertion order), then the map to {name, id} and the filter on
\* fs.existsSync(sfcPath).
\* Last index of the greedy run [a-zA-Z0-9]* that starts at index i.
RECURSIVE NameEnd(_, _)
NameEnd(t, i) ==
  IF i < Len(t) /\ IsAlnum(t[i + 1]) THEN NameEnd(t, i + 1) ELSE i

\* The scan without the existsSync filter.
MutFilterKeepsAll(s, keep) == s

\* An array push in place of Set.prototype.add.
MutSetAddPush(names, n) == Append(names, n)

\* Set.prototype.add on an insertion-ordered set.
SetAdd(names, n) ==
  IF n \in Range(names) THEN names ELSE Append(names, n)

RECURSIVE ScanNames(_, _, _)
ScanNames(t, i, names) ==
  IF i > Len(t) THEN names
  ELSE IF t[i] = "<" /\ i < Len(t) /\ IsUpper(t[i + 1])
    THEN LET j == NameEnd(t, i + 1)
         IN  ScanNames(t, j + 1, SetAdd(names, SubSeq(t, i + 1, j)))
    ELSE ScanNames(t, i + 1, names)

\* Array.prototype.filter.
RECURSIVE SeqFilter(_, _)
SeqFilter(s, keep) ==
  IF s = <<>> THEN <<>>
  ELSE IF Head(s) \in keep
    THEN <<Head(s)>> \o SeqFilter(Tail(s), keep)
    ELSE SeqFilter(Tail(s), keep)

\* vueOnDisk: the folder ids d for which components/<d>/index.vue exists.
\* An entry is {name, id}; sfcPath is components/<id>/index.vue.
scanSubComponents(templateSource, vueOnDisk) ==
  LET names  == ScanNames(templateSource, 1, <<>>)
      mapped == [i \in DOMAIN names |->
                   [name |-> names[i], id |-> compNameToFolderId(names[i])]]
  IN  SeqFilter(mapped, { e \in Range(mapped) : e.id \in vueOnDisk })

(***************************************************************************)
(* JavaScript objects.  An object is a function from its own keys to their *)
(* values; a reference is an index into the heap.  Two references to the   *)
(* same object see each other's writes, a copy does not.                   *)
(***************************************************************************)
Keys == {"x", "y"}

Vals == {0, 2}

\* {}
EmptyObj == [k \in {} |-> 0]

\* obj[k] = v
Put(obj, k, v) == [x \in DOMAIN obj \cup {k} |-> IF x = k THEN v ELSE obj[x]]

\* delete obj[k]
Del(obj, k) == [x \in DOMAIN obj \ {k} |-> obj[x]]

\* { ...a, ...b }: the keys of both, b's value where both have the key.
Spread2(a, b) ==
  [k \in DOMAIN a \cup DOMAIN b |-> IF k \in DOMAIN b THEN b[k] ELSE a[k]]

\* { ...a }
Spread(a) == Spread2(EmptyObj, a)

VARIABLES
  heap,         \* reference -> object, for the objects that are still referenced
  assignments   \* Vue._assignments: a reference

VARIABLES
  held,       \* the references getAll() returned that the caller still holds
  lastRet,    \* the last API call and what it returned
  expected,   \* history: key -> value last assigned since the last reset()
  calls       \* number of API calls made

VARIABLES
  pc,       \* request -> where route()/render() is suspended
  route,    \* request -> the folder id its URL maps to (<<>> before it arrives)
  load,     \* request -> the temporary module it is importing: component index
            \*   (0: the top-level component, i: the i-th sub-component), the
            \*   Date.now() of its file name, whether the file was removed meanwhile
  snap,     \* request -> the reference render() holds in `assignments` (0: none)
  setupFn,  \* request -> whether #extractScriptOptions returned a setup function
  resp,     \* request -> the response written: status code, error message, html
  files,    \* temporary file name -> the request that wrote the file
  now,      \* Date.now()
  own,      \* history: request -> what its handler assigned since its reset()
  hist      \* history: request -> what happened to it (see NoHist)

VARIABLES
  tpl,      \* resolver specification: the template source scanned
  disk,     \* resolver specification: folder ids with an index.vue
  scanOut,  \* resolver specification: <<>> or <<result of scanSubComponents>>
  made,     \* document specification: the documents assembled
  win       \* document specification: <<>> or <<window.__ORE_STATE__>>

storeVars == <<held, lastRet, expected, calls>>

routeVars == <<pc, route, load, snap, setupFn, resp, files, now, own, hist>>

scanVars == <<tpl, disk, scanOut>>

VARIABLES
  scanUse,  \* resolver specification: <<>> or <<what render() does with the
            \*   resolver's result: the ids it compiles, the document>>
  ep,       \* server specification: the last request to /ore/component.js
            \*   and its response (see NoEp)
  script,   \* client-compile specification: compiled.content of the component
  clientOut, \* client-compile specification: <<>> or <<the module returned>>
  db,       \* database specification: the Db instance and its connection
            \*   attempts (see InitDb)
  cl,       \* database specification: caller -> its query call (see NoCall)
  conv,     \* name specification: <<>> or <<the name converted and the folder
            \*   id compNameToFolderId returned>>
  st,       \* static-file specification: <<>> or <<the request for a static
            \*   path and its response>>
  proc      \* database specification: the process (see NoProc)

docVars == <<made, win>>

auxVars == <<conv, st, proc>>

svcVars == <<scanUse, ep, script, clientOut, db, cl, auxVars>>

vars == <<heap, assignments, storeVars, routeVars, scanVars, docVars, svcVars>>

\* A reference not in use: the allocation of a new object.
NewRef(h) == CHOOSE o \in 1..(Cardinality(DOMAIN h) + 1) : o \notin DOMAIN h

\* The heap h with the object obj stored under the reference o.
HeapSet(h, o, obj) == [p \in DOMAIN h \cup {o} |-> IF p = o THEN obj ELSE h[p]]

\* Garbage collection: only the objects reachable from roots are kept.
Collect(h, roots) == [o \in DOMAIN h \cap roots |-> h[o]]

(***************************************************************************)
(* Vue: the assignment store (assign, getAll, get, reset).  Each operator  *)
(* takes the heap and the reference held in this._assignments.             *)
(***************************************************************************)
\* assign() that writes the entry into every object on the heap.
MutAssignWritesAll(h, a, key, value) ==
  [heap |-> [o \in DOMAIN h |-> Put(h[o], key, value)], this |-> TRUE]

\* assign(key, value): this._assignments[key] = value; return this
VueAssign(h, a, key, value) ==
  [heap |-> [h EXCEPT ![a] = Put(@, key, value)], this |-> TRUE]

\* getAll() with `return this._assignments`: the store's own object.
MutGetAllAlias(h, a) == [heap |-> h, ref |-> a]

\* getAll() that hands the entries over and leaves the store empty.
MutGetAllDrains(h, a) ==
  LET o == NewRef(h)
  IN  [heap |-> HeapSet(HeapSet(h, o, Spread(h[a])), a, EmptyObj), ref |-> o]

\* getAll(): return { ...this._assignments }, a new object
VueGetAll(h, a) ==
  LET o == NewRef(h) IN [heap |-> HeapSet(h, o, Spread(h[a])), ref |-> o]

\* get(key): return this._assignments[key]; <<>> stands for undefined
VueGet(h, a, key) == IF key \in DOMAIN h[a] THEN <<h[a][key]>> ELSE <<>>

\* reset(): this._assignments = {}; return this
VueReset(h, a) ==
  LET o == NewRef(h) IN [heap |-> HeapSet(h, o, EmptyObj), ref |-> o, this |-> TRUE]

(***************************************************************************)
(* The store API driven by one caller: any sequence of assign, getAll,     *)
(* get and reset, the caller keeping the objects getAll returned and       *)
(* adding, replacing and deleting their top-level keys.                    *)
(***************************************************************************)
NoRet == [op |-> "none", this |-> FALSE, ref |-> 0, obj |-> EmptyObj, key |-> "", val |-> <<>>]

StoreRoots(a, hd) == {a} \cup hd

ApiAssign(k, v) ==
  /\ calls < MaxCalls
  /\ LET r == VueAssign(heap, assignments, k, v)
     IN  /\ heap' = r.heap
         /\ lastRet' = [NoRet EXCEPT !.op = "assign", !.this = r.this]
  /\ expected' = Put(expected, k, v)
  /\ calls' = calls + 1
  /\ UNCHANGED <<assignments, held, routeVars, scanVars, docVars, svcVars>>

ApiGetAll ==
  /\ calls < MaxCalls
  /\ Cardinality(held \ {assignments}) < MaxHeld
  /\ LET r == VueGetAll(heap, assignments)
     IN  /\ heap' = r.heap
         /\ held' = held \cup {r.ref}
         /\ lastRet' = [NoRet EXCEPT !.op = "getAll", !.ref = r.ref, !.obj = r.heap[r.ref]]
  /\ calls' = calls + 1
  /\ UNCHANGED <<assignments, expected, routeVars, scanVars, docVars, svcVars>>

ApiGet(k) ==
  /\ calls < MaxCalls
  /\ lastRet' = [NoRet EXCEPT !.op = "get", !.key = k, !.val = VueGet(heap, assignments, k)]
  /\ calls' = calls + 1
  /\ UNCHANGED <<heap, assignments, held, expected, routeVars, scanVars, docVars, svcVars>>

ApiReset ==
  /\ calls < MaxCalls
  /\ LET r == VueReset(heap, assignments)
     IN  /\ assignments' = r.ref
         /\ heap' = Collect(r.heap, StoreRoots(r.ref, held))
         /\ lastRet' = [NoRet EXCEPT !.op = "reset", !.this = r.this]
  /\ expected' = EmptyObj
  /\ calls' = calls + 1
  /\ UNCHANGED <<held, routeVars, scanVars, docVars, svcVars>>

\* The caller writes a key of an object it got from getAll().
CallerPut(o, k, v) ==
  /\ o \in held
  /\ heap' = [heap EXCEPT ![o] = Put(@, k, v)]
  /\ UNCHANGED <<assignments, held, lastRet, expected, calls, routeVars, scanVars, docVars, svcVars>>

\* The caller deletes a key of an object it got from getAll().
CallerDelete(o, k) ==
  /\ o \in held
  /\ k \in DOMAIN heap[o]
  /\ heap' = [heap EXCEPT ![o] = Del(@, k)]
  /\ UNCHANGED <<assignments, held, lastRet, expected, calls, routeVars, scanVars, docVars, svcVars>>

\* The caller lets go of an object it got from getAll().
CallerDrop(o) ==
  /\ o \in held
  /\ held' = held \ {o}
  /\ heap' = Collect(heap, StoreRoots(assignments, held'))
  /\ UNCHANGED <<assignments, lastRet, expected, calls, routeVars, scanVars, docVars, svcVars>>

(***************************************************************************)
(* The files under components/.  A component is named by its folder id;    *)
(* the route /<id> maps to components/<id>/index.js and index.vue.         *)
(***************************************************************************)
HomeId == <<"h","o","m","e">>

SaCoId == <<"s","a","-","c","o">>

BoomId == <<"b","o","o","m">>

TBoomId == <<"t","b","o","o","m">>

NoVueId == <<"n","o","v","u","e">>

BadId == <<"b","a","d">>

NoTplId == <<"n","o","t","p","l">>

TErrId == <<"t","e","r","r">>

\* A nested folder: components/p/r, the route /p/r.
ParId == <<"p","/","r">>

\* The URL paths a client requests.
Routes == {HomeId, SaCoId, BoomId, TBoomId, NoVueId, BadId, NoTplId, TErrId, ParId}

\* Folders with an index.js (component logic).
JsOnDisk == {HomeId, BoomId, TBoomId, NoVueId, BadId, NoTplId, TErrId, ParId}

\* Folders with an index.vue.
VueOnDisk == {HomeId, SaCoId, BoomId, TBoomId, BadId, NoTplId, TErrId, ParId}

\* home/index.vue: <SaCo/><sa-co/><SaCo/><No/>
HomeTemplate ==
  <<"<","S","a","C","o","/",">", "<","s","a","-","c","o","/",">",
    "<","S","a","C","o","/",">", "<","N","o","/",">">>

PlainTemplate == <<"<","p","/",">">>

\* sa-co/index.vue and par/index.vue: <Bad/>
BadRefTemplate == <<"<","B","a","d","/",">">>

\* descriptor.template.content of components/<c>/index.vue
TemplateOf(c) ==
  IF c = HomeId THEN HomeTemplate
  ELSE IF c \in {SaCoId, ParId} THEN BadRefTemplate
  ELSE PlainTemplate

\* index.vue files the parser reports diagnostics for (the descriptor it
\* returns still has the template block).
ParseErrorComps == {BadId}

\* index.vue files without a <template> block.
NoTemplateComps == {NoTplId}

\* index.vue files whose template compileTemplate reports errors for.
TplErrorComps == {TErrId}

\* index.vue files whose compiled template module throws when it is evaluated.
TplThrowComps == {TBoomId}

\* "setup": <script setup>; "script": <script>; "none": no script content.
ScriptKindOf(c) ==
  IF c \in {HomeId} THEN "setup"
  ELSE IF c \in {BoomId, SaCoId} THEN "script"
  ELSE "none"

\* index.vue files whose script module throws when it is evaluated.
ScriptThrowComps == {BoomId}

\* index.vue files whose script's default export has a setup function.
SetupComps == {HomeId, BoomId}

\* What that setup function returns.
SetupResultOf(c) == [x |-> 1]

\* The assign(key, value) calls the handler in components/<c>/index.js makes,
\* in any order and any number of times.
HandlerArgsOf(c) ==
  IF c = HomeId THEN {<<"x", 0>>, <<"y", 2>>}
  ELSE IF c \in {BoomId, NoVueId} THEN {<<"y", 0>>}
  ELSE {}

\* descriptor.styles of components/<c>/index.vue, each by its content.
StylesOf(c) == IF c \in {HomeId, SaCoId} THEN <<c>> ELSE <<>>

(***************************************************************************)
(* Requests.  Router.route(req, res) runs once per request; between two    *)
(* awaits a request runs alone, at an await any other request may run.     *)
(***************************************************************************)
\* The requests of one run, numbered in order of arrival: two, since the
\* properties checked are about one request or about a pair of requests.
Reqs == {1, 2}

NoLoad == [idx |-> 0, ts |-> 0, gone |-> FALSE]

NoResp == [code |-> 0, message |-> "", html |-> <<>>]

\* emptyAtStart: the store was empty when the handler was invoked;
\* snapOwn: the snapshot render() took held exactly what the request's own
\*   handler had assigned since the request's reset();
\* evalThrew: a generated module threw while it was evaluated;
\* caught: the errors #extractScriptOptions caught and dropped, each as
\*   <<component index, error>>;
\* draw: the bytes randomBytes(6) returned.
NoHist ==
  [emptyAtStart |-> TRUE, snapOwn |-> TRUE, evalThrew |-> FALSE, caught |-> {}, draw |-> <<>>]

Importing == {"tplImport", "scriptImport"}

\* const subComps = scanSubComponents(descriptor.template?.content ?? '')
\* for each index.vue on disk.
SubCompsOf ==
  [c \in Routes |->
     scanSubComponents(IF c \in NoTemplateComps THEN <<>> ELSE TemplateOf(c), VueOnDisk)]

SubComps(c) == SubCompsOf[c]

\* The component a load is about: the top-level one or its i-th sub-component.
CompAt(c, i) == IF i = 0 THEN c ELSE SubComps(c)[i].id

\* sfcPath.replace('.vue', `.ssr.${Date.now()}.mjs`) and
\* sfcPath.replace('.vue', `.script.${Date.now()}.mjs`)
TmpName(c, kind, ts) == <<c, kind, ts>>

KindOf(p) == IF p = "tplImport" THEN "ssr" ELSE "script"

\* The temporary file request r is importing.
CurName(r) == TmpName(CompAt(route[r], load[r].idx), KindOf(pc[r]), load[r].ts)

\* fs.writeFileSync(name, ...) by request r
WriteFile(fs, name, r) ==
  [n \in DOMAIN fs \cup {name} |-> IF n = name THEN r ELSE fs[n]]

\* fs.unlinkSync(name) of an existing file
RemoveFile(fs, name) == [n \in DOMAIN fs \ {name} |-> fs[n]]

(***************************************************************************)
(* Where render() goes next.  A target is the await it suspends at (or     *)
(* "done" with the error it throws).                                       *)
(***************************************************************************)
Target(p, i, e) == [pc |-> p, idx |-> i, err |-> e]

\* #compileTemplate up to its import(): the throws before the file is written.
BeginTpl(c, i) ==
  IF CompAt(c, i) \in NoTemplateComps THEN Target("done", i, "notemplate")
  ELSE IF CompAt(c, i) \in TplErrorComps THEN Target("done", i, "compile")
  ELSE Target("tplImport", i, "")

\* After component i is built: the next sub-component, or renderToString.
AfterScript(c, i) ==
  IF i < Len(SubComps(c)) THEN BeginTpl(c, i + 1) ELSE Target("rendering", i, "")

\* render() without its loop over subComps.
MutAfterTplSkipsSubs(c, i) ==
  IF ScriptKindOf(CompAt(c, i)) # "none"
    THEN Target("scriptImport", i, "")
    ELSE Target("rendering", i, "")

\* #extractScriptOptions up to its import(): no script content returns at once.
AfterTpl(c, i) ==
  IF ScriptKindOf(CompAt(c, i)) # "none"
    THEN Target("scriptImport", i, "")
    ELSE AfterScript(c, i)

\* render() without the existsSync test.
MutRenderEntryNoExists(c) ==
  IF c \in ParseErrorComps THEN Target("done", 0, "parse") ELSE BeginTpl(c, 0)

\* render() up to its first await.
RenderEntry(c) ==
  IF c \notin VueOnDisk THEN Target("done", 0, "notfound")
  ELSE IF c \in ParseErrorComps THEN Target("done", 0, "parse")
  ELSE BeginTpl(c, 0)

(***************************************************************************)
(* The instance id and the document.                                       *)
(***************************************************************************)
\* randomBytes(6): the number of bytes.
IdBytes == 6

HexDigits == <<"0","1","2","3","4","5","6","7","8","9","a","b","c","d","e","f">>

\* The byte sequences randomBytes(6) returns in the model.
RandomDraws == { <<171, 205, 239, 0, 1, 35>>, <<171, 205, 239, 0, 18, 3>> }

\* b.toString(16) without padding to two digits.
MutByteToHexNoPad(b) ==
  IF b < 16 THEN <<HexDigits[b + 1]>>
  ELSE <<HexDigits[(b \div 16) + 1], HexDigits[(b % 16) + 1]>>

ByteToHex(b) == <<HexDigits[(b \div 16) + 1], HexDigits[(b % 16) + 1]>>

\* Buffer.prototype.toString('hex')
RECURSIVE ToHex(_)
ToHex(bytes) ==
  IF bytes = <<>> THEN <<>> ELSE ByteToHex(Head(bytes)) \o ToHex(Tail(bytes))

\* JSON.stringify(obj) of an object of numbers: the members of the JSON text.
JSONStringify(obj) == { <<k, obj[k]>> : k \in DOMAIN obj }

\* The object that a JSON text evaluates to as a script expression.
JSONParse(text) == [k \in { m[1] : m \in text } |-> (CHOOSE m \in text : m[1] = k)[2]]

\* encodeURIComponent on one character of a component id; an escape is one
\* element of the result.
EncodeChar(c) ==
  IF IsAlnum(c) \/ c \in {"-", "_", ".", "!", "~", "*", "'", "(", ")"} THEN <<c>>
  ELSE IF c = "/" THEN <<"%2F">>
  ELSE IF c = "<" THEN <<"%3C">>
  ELSE IF c = ">" THEN <<"%3E">>
  ELSE <<"%20">>

RECURSIVE encodeURIComponent(_)
encodeURIComponent(str) ==
  IF str = <<>> THEN <<>> ELSE EncodeChar(Head(str)) \o encodeURIComponent(Tail(str))

\* #document: the parts of the returned text that depend on the arguments.
\*   styles            the <style> blocks, from descriptor.styles
\*   stateKey, state   window.__ORE_STATE__['<stateKey>'] = <state>;
\*   importTop         import { render } from '/ore/component.js?c=<importTop>'
\*   subImports        import <name> from '/ore/component.js?c=<c>', in order
\*   bootKey           (window.__ORE_STATE__ || {})['<bootKey>']
\*   subRegistrations  app.component('<name>', <name>), in order
\*   mountSel          app.mount('#ore-<mountSel>')
\*   divId, body       <div id="ore-<divId>"><body></div>
Document(body, styles, assigned, componentId, instanceId, subComps) ==
  [ styles           |-> styles,
    stateKey         |-> instanceId,
    state            |-> JSONStringify(assigned),
    importTop        |-> encodeURIComponent(componentId),
    subImports       |-> [i \in DOMAIN subComps |->
                            [name |-> subComps[i].name,
                             c    |-> encodeURIComponent(subComps[i].id)]],
    bootKey          |-> instanceId,
    subRegistrations |-> [i \in DOMAIN subComps |-> subComps[i].name],
    mountSel         |-> instanceId,
    divId            |-> instanceId,
    body             |-> body ]

\* return { ...sfcData, ...oreData }: the store wins.
MutMergeStoreWins(oreData, sfcData) == Spread2(sfcData, oreData)

\* The component's setup(): return { ...oreData, ...sfcData }
SetupMerge(oreData, sfcData) == Spread2(oreData, sfcData)

\* const sfcData = sfcSetup ? (await sfcSetup(props, ctx)) ?? {} : {}
SfcData(c, hasSetup) == IF hasSetup THEN SetupResultOf(c) ELSE EmptyObj

\* The loop run from the last entry to the first.
MutRegisteredReversed(subComps) ==
  [i \in DOMAIN subComps |-> subComps[Len(subComps) + 1 - i].name]

\* for (const sub of subComps) app.component(sub.name, subComp)
RegisteredNames(subComps) == [i \in DOMAIN subComps |-> subComps[i].name]

\* for (const sub of subComps) await this.#buildSubComponent(sub.sfcPath)
CompiledIds(subComps) == [i \in DOMAIN subComps |-> subComps[i].id]

\* renderToString(app): the fragment, by the data it is rendered from.
Fragment(ctx, registered) == [ctx |-> ctx, components |-> registered]

\* path.join(componentsRoot, urlPath, 'index.vue'): a path is a sequence of
\* characters in which the components root and the file name index.vue are
\* one element each.
SfcPath(c) == <<"components", "/">> \o c \o <<"/", "index.vue">>

\* path.relative(_componentsRoot, sfcPath)
PathRelative(p) ==
  IF Len(p) >= 2 /\ p[1] = "components" /\ p[2] = "/"
    THEN SubSeq(p, 3, Len(p))
    ELSE <<".", ".", "/">> \o p

\* rel.replace(/[/\\]index\.vue$/, '').replace(/\\/g, '/')
ComponentIdOf(sfcPath) ==
  LET rel == PathRelative(sfcPath)
      n   == Len(rel)
  IN  IF n >= 2 /\ rel[n - 1] = "/" /\ rel[n] = "index.vue"
        THEN SubSeq(rel, 1, n - 2)
        ELSE rel

\* render() from renderToString on, for the top-level component c: assigned
\* is the object in `assignments`, hasSetup whether sfcSetup is a function,
\* bytes what randomBytes(6) returns.
RenderTail(c, assigned, hasSetup, bytes) ==
  LET ctx  == SetupMerge(Spread(assigned), SfcData(c, hasSetup))
      body == Fragment(ctx, RegisteredNames(SubComps(c)))
  IN  Document(body, StylesOf(c), assigned, ComponentIdOf(SfcPath(c)),
               ToHex(bytes), SubComps(c))

(***************************************************************************)
(* compileForClient.  Module source is a sequence of lexemes:               *)
(*   "E"  the text `export default`        " "  a whitespace character      *)
(*   "q"  a string delimiter               "#"  a comment delimiter         *)
(*   "{"  other code                       "S"  the text `const __sfc__ = ` *)
(*   "R"  the compiled client template, which exports the function render   *)
(*   "D"  export default { render }                                         *)
(*   "A"  export default Object.assign(__sfc__, { render })                 *)
(*   "n"  the newline the method puts between the parts                     *)
(***************************************************************************)
ScriptAlphabet == {"E", " ", "q", "#", "{"}

\* compileTemplate({ ..., ssr: false }).code
TemplateCode == <<"R">>

\* scriptContent.includes('export default')
IncludesExportDefault(text) == \E i \in DOMAIN text : text[i] = "E"

\* The end of the whitespace run that starts at position i (i - 1 if none).
RECURSIVE SpaceEnd(_, _)
SpaceEnd(text, i) ==
  IF i <= Len(text) /\ text[i] = " " THEN SpaceEnd(text, i + 1) ELSE i - 1

\* Where /export default\s+/ first matches (0 if nowhere).
FirstExportMatch(text) ==
  LET hits == { i \in 1..(Len(text) - 1) : text[i] = "E" /\ text[i + 1] = " " }
  IN  IF hits = {} THEN 0 ELSE CHOOSE i \in hits : \A j \in hits : i <= j

\* scriptContent.replace(/export default\s+/, 'const __sfc__ = ')
ReplaceExportDefault(text) ==
  LET i == FirstExportMatch(text)
  IN  IF i = 0 THEN text
      ELSE SubSeq(text, 1, i - 1) \o <<"S">>
             \o SubSeq(text, SpaceEnd(text, i + 1) + 1, Len(text))

\* The merged form returned where there is no script.
MutRenderOnlyMerged(templateCode) == templateCode \o <<"n", "A">>

\* `${templateCode}\nexport default { render }`
RenderOnlyModule(templateCode) == templateCode \o <<"n", "D">>

\* `${scriptWithoutExport}\n${templateCode}\nexport default Object.assign(__sfc__, { render })`
MergedModule(scriptWithoutExport, templateCode) ==
  scriptWithoutExport \o <<"n">> \o templateCode \o <<"n", "A">>

\* compileForClient from the scriptContent test on: scriptContent is
\* <<>> (null) or <<the compiled script>>.
ClientModule(scriptContent, templateCode) ==
  IF scriptContent = <<>> \/ ~IncludesExportDefault(scriptContent[1])
    THEN RenderOnlyModule(templateCode)
    ELSE MergedModule(ReplaceExportDefault(scriptContent[1]), templateCode)

\* compiled.content of components/<c>/index.vue for the client.
ClientScriptOf(c) ==
  IF ScriptKindOf(c) = "none" THEN <<>> ELSE << <<"E", " ", "{">> >>

\* compileForClient(sfcPath), sfcPath being the index.vue of folder c (<<>>:
\* of no folder there is): the error it throws or the module it returns,
\* and the steps it took.
compileForClient(c) ==
  IF c \notin VueOnDisk
    THEN [err |-> "notfound", module |-> <<>>, steps |-> <<"exists">>]
  ELSE IF c \in ParseErrorComps
    THEN [err |-> "parse", module |-> <<>>, steps |-> <<"exists", "read", "parse">>]
  ELSE IF c \in NoTemplateComps
    THEN [err |-> "notemplate", module |-> <<>>, steps |-> <<"exists", "read", "parse">>]
  ELSE LET withScript == IF ClientScriptOf(c) # <<>> THEN <<"compileScript">> ELSE <<>>
           steps == <<"exists", "read", "parse">> \o withScript \o <<"compileTemplate">>
       IN  IF c \in TplErrorComps
             THEN [err |-> "compile", module |-> <<>>, steps |-> steps]
             ELSE [err |-> "", module |-> ClientModule(ClientScriptOf(c), TemplateCode),
                   steps |-> steps]

(***************************************************************************)
(* Router.route and Vue.render, one action per stretch between awaits.     *)
(***************************************************************************)
others == <<storeVars, scanVars, docVars, svcVars>>

\* The references the server holds: the store's and the renders' snapshots.
RouteRoots(a, sn) == {a} \cup ({ sn[r] : r \in Reqs } \ {0})

\* Request r removed the file `name`: every other import of that name lost it.
MarkGone(ld, name, r) ==
  [q \in Reqs |->
     IF q # r /\ pc[q] \in Importing /\ CurName(q) = name
       THEN [ld[q] EXCEPT !.gone = TRUE]
       ELSE ld[q]]

\* The unlink at the end of the try block: skipped when the import throws.
MutCleanupOnSuccess(fs, name, importErr) ==
  IF importErr = "" /\ name \in DOMAIN fs THEN RemoveFile(fs, name) ELSE fs

\* #compileTemplate: try { import } finally { fs.unlinkSync(tmpFile) }
TplCleanup(fs, name, importErr) ==
  IF name \in DOMAIN fs THEN RemoveFile(fs, name) ELSE fs

\* What that try/finally throws: unlinkSync's ENOENT replaces the import's error.
TplOutcome(present, importErr) == IF ~present THEN "ENOENT" ELSE importErr

\* #extractScriptOptions: finally { try { fs.unlinkSync(tmpFile) } catch {} }
ScriptCleanup(fs, name, importErr) ==
  IF name \in DOMAIN fs THEN RemoveFile(fs, name) ELSE fs

\* #extractScriptOptions: try { import; return ... } catch { return null's }
ScriptOutcome(present, importErr) == ""

\* await import(tmpFile): found = FALSE is the loader not finding the file.
ImportError(found, throws) ==
  IF ~found THEN "modnotfound" ELSE IF throws THEN "eval" ELSE ""

\* Request r suspends at target t (or ends with t.err), the files being fs.
Enter(r, t, fs, ld) ==
  /\ pc' = [pc EXCEPT ![r] = t.pc]
  /\ IF t.pc \in Importing
       THEN /\ files' = WriteFile(fs, TmpName(CompAt(route[r], t.idx), KindOf(t.pc), now), r)
            /\ load' = [ld EXCEPT ![r] = [idx |-> t.idx, ts |-> now, gone |-> FALSE]]
       ELSE /\ files' = fs
            /\ load' = [ld EXCEPT ![r] = NoLoad]
  /\ resp' = IF t.pc = "done"
               THEN [resp EXCEPT ![r] = [code |-> 500, message |-> t.err, html |-> <<>>]]
               ELSE resp

\* What a finished request lets go of; the history of a request's own
\* assignments ends when its snapshot is taken.
Release(r, t, sn) ==
  /\ snap' = IF t.pc = "done" THEN [sn EXCEPT ![r] = 0] ELSE sn
  /\ own' = IF t.pc = "done" \/ sn[r] # 0 THEN [own EXCEPT ![r] = EmptyObj] ELSE own

\* route(): up to `await import(moduleUrl)`, or the 404.
RouteStart(r, c) ==
  /\ pc[r] = "idle"
  /\ \A q \in Reqs : q < r => pc[q] # "idle"
  /\ route' = [route EXCEPT ![r] = c]
  /\ IF c \notin JsOnDisk
       THEN /\ pc' = [pc EXCEPT ![r] = "done"]
            /\ resp' = [resp EXCEPT ![r] =
                          [code |-> 404, message |-> "No component for route", html |-> <<>>]]
            /\ UNCHANGED <<heap, assignments>>
       ELSE /\ LET v == VueReset(heap, assignments)
               IN  /\ assignments' = v.ref
                   /\ heap' = Collect(v.heap, RouteRoots(v.ref, snap))
            /\ pc' = [pc EXCEPT ![r] = "import"]
            /\ resp' = resp
  /\ UNCHANGED <<load, snap, setupFn, files, now, own, hist, others>>

\* The handler module is imported and the handler is invoked.
HandlerImported(r) ==
  /\ pc[r] = "import"
  /\ pc' = [pc EXCEPT ![r] = "handler"]
  /\ hist' = [hist EXCEPT ![r].emptyAtStart = (heap[assignments] = EmptyObj)]
  /\ UNCHANGED <<heap, assignments, route, load, snap, setupFn, resp, files, now, own, others>>

\* import(moduleUrl) rejects.
HandlerImportFails(r) ==
  /\ pc[r] = "import"
  /\ Enter(r, Target("done", 0, "import"), files, load)
  /\ Release(r, Target("done", 0, "import"), snap)
  /\ UNCHANGED <<heap, assignments, route, setupFn, now, hist, others>>

\* The handler calls Ore.vue.assign(k, v).
HandlerAssign(r, k, v) ==
  /\ pc[r] = "handler"
  /\ <<k, v>> \in HandlerArgsOf(route[r])
  /\ heap' = VueAssign(heap, assignments, k, v).heap
  /\ own' = [own EXCEPT ![r] = Put(@, k, v)]
  /\ UNCHANGED <<assignments, pc, route, load, snap, setupFn, resp, files, now, hist, others>>

\* The handler throws (or its promise rejects).
HandlerThrows(r) ==
  /\ pc[r] = "handler"
  /\ Enter(r, Target("done", 0, "handler"), files, load)
  /\ Release(r, Target("done", 0, "handler"), snap)
  /\ UNCHANGED <<heap, assignments, route, setupFn, now, hist, others>>

\* The handler throws null or undefined: in the catch block writeHead(500)
\* is called, evaluating err.message throws a TypeError before res.end(),
\* and route() rejects with the response not ended.
HandlerThrowsNull(r) ==
  /\ pc[r] = "handler"
  /\ pc' = [pc EXCEPT ![r] = "escaped"]
  /\ resp' = [resp EXCEPT ![r] = [code |-> 500, message |-> "", html |-> <<>>]]
  /\ Release(r, Target("done", 0, "TypeError"), snap)
  /\ UNCHANGED <<heap, assignments, route, load, setupFn, files, now, hist, others>>

\* The handler returns; route() calls render(), which runs to its first await.
RenderStart(r) ==
  /\ pc[r] = "handler"
  /\ Enter(r, RenderEntry(route[r]), files, load)
  /\ Release(r, RenderEntry(route[r]), snap)
  /\ UNCHANGED <<heap, assignments, route, setupFn, now, hist, others>>

\* The import of a compiled template module settles.
TplImportDone(r, found) ==
  /\ pc[r] = "tplImport"
  /\ found \/ load[r].gone
  /\ LET c         == route[r]
         i         == load[r].idx
         name      == CurName(r)
         present   == name \in DOMAIN files
         throws    == CompAt(c, i) \in TplThrowComps
         importErr == ImportError(found, throws)
         err       == TplOutcome(present, importErr)
         fs        == TplCleanup(files, name, importErr)
         ld        == IF name \in DOMAIN fs THEN load ELSE MarkGone(load, name, r)
         t         == IF err # "" THEN Target("done", i, err) ELSE AfterTpl(c, i)
         g         == VueGetAll(heap, assignments)
         takes     == err = "" /\ i = 0
         sn        == IF takes THEN [snap EXCEPT ![r] = g.ref] ELSE snap
     IN  /\ Enter(r, t, fs, ld)
         /\ Release(r, t, sn)
         /\ heap' = Collect(IF takes THEN g.heap ELSE heap, RouteRoots(assignments, snap'))
         /\ hist' = [hist EXCEPT ![r].evalThrew = @ \/ (found /\ throws),
                                 ![r].snapOwn = IF takes THEN g.heap[g.ref] = own[r] ELSE @]
  /\ UNCHANGED <<assignments, route, setupFn, now, others>>

\* The import of a script module settles.
ScriptImportDone(r, found) ==
  /\ pc[r] = "scriptImport"
  /\ found \/ load[r].gone
  /\ LET c         == route[r]
         i         == load[r].idx
         name      == CurName(r)
         present   == name \in DOMAIN files
         throws    == CompAt(c, i) \in ScriptThrowComps
         importErr == ImportError(found, throws)
         err       == ScriptOutcome(present, importErr)
         fs        == ScriptCleanup(files, name, importErr)
         ld        == IF name \in DOMAIN fs THEN load ELSE MarkGone(load, name, r)
         t         == IF err # "" THEN Target("done", i, err) ELSE AfterScript(c, i)
         setup     == importErr = "" /\ CompAt(c, i) \in SetupComps
     IN  /\ Enter(r, t, fs, ld)
         /\ Release(r, t, snap)
         /\ heap' = Collect(heap, RouteRoots(assignments, snap'))
         /\ setupFn' = IF i = 0 /\ t.pc # "done" THEN [setupFn EXCEPT ![r] = setup] ELSE setupFn
         /\ hist' = [hist EXCEPT ![r].evalThrew = @ \/ (found /\ throws),
                                 ![r].caught = IF err = "" /\ importErr # ""
                                                 THEN @ \cup {<<i, importErr>>} ELSE @]
  /\ UNCHANGED <<assignments, route, now, others>>

\* renderToString resolves; render() assembles the document, route() sends it.
RenderDone(r, bytes) ==
  /\ pc[r] = "rendering"
  /\ LET html == RenderTail(route[r], heap[snap[r]], setupFn[r], bytes)
     IN  resp' = [resp EXCEPT ![r] = [code |-> 200, message |-> "", html |-> <<html>>]]
  /\ pc' = [pc EXCEPT ![r] = "done"]
  /\ Release(r, Target("done", 0, ""), snap)
  /\ heap' = Collect(heap, RouteRoots(assignments, snap'))
  /\ setupFn' = [setupFn EXCEPT ![r] = FALSE]
  /\ hist' = [hist EXCEPT ![r].draw = bytes]
  /\ UNCHANGED <<assignments, route, load, files, now, others>>

\* renderToString rejects.
RenderThrows(r) ==
  /\ pc[r] = "rendering"
  /\ Enter(r, Target("done", 0, "render"), files, load)
  /\ Release(r, Target("done", 0, "render"), snap)
  /\ heap' = Collect(heap, RouteRoots(assignments, snap'))
  /\ setupFn' = [setupFn EXCEPT ![r] = FALSE]
  /\ UNCHANGED <<assignments, route, now, hist, others>>

\* A millisecond passes.
Tick ==
  /\ now < MaxClock
  /\ now' = now + 1
  /\ UNCHANGED <<heap, assignments, pc, route, load, snap, setupFn, resp, files, own, hist, others>>

InitStore ==
  /\ heap = [o \in {1} |-> EmptyObj]
  /\ assignments = 1
  /\ held = {}
  /\ lastRet = NoRet
  /\ expected = EmptyObj
  /\ calls = 0

InitRoute ==
  /\ pc = [r \in Reqs |-> "idle"]
  /\ route = [r \in Reqs |-> <<>>]
  /\ load = [r \in Reqs |-> NoLoad]
  /\ snap = [r \in Reqs |-> 0]
  /\ setupFn = [r \in Reqs |-> FALSE]
  /\ resp = [r \in Reqs |-> NoResp]
  /\ files = [n \in {} |-> 0]
  /\ now = 0
  /\ own = [r \in Reqs |-> EmptyObj]
  /\ hist = [r \in Reqs |-> NoHist]

InitScan ==
  /\ tpl = <<>>
  /\ disk = {}
  /\ scanOut = <<>>

\* The callers of the Db instance's query methods.
Callers == {1, 2}

QueryMethods == {"fetchAllRows", "fetchRow", "execute"}

\* at: "idle", "waiting" (suspended at `await this._ensureConnected()`) or
\* "done"; awaits: the attempt whose promise the caller was handed (0: none,
\* the connection was returned at once); conn: the connection the await
\* yields (0: not yet known, -1: the await threw the attempt's error).
NoCall == [at |-> "idle", method |-> "", awaits |-> 0, conn |-> 0]

\* connection: this._connection (0: null); pending: the attempt whose promise
\* is this._pending (0: null); started: the number of _connect() calls made;
\* inflight: the attempts whose _connect() has not settled yet; failed: the
\* attempts whose _connect() rejected.
InitDb ==
  /\ db = [connection |-> 0, pending |-> 0, started |-> 0, inflight |-> {},
           failed |-> {}]
  /\ cl = [p \in Callers |-> NoCall]

\* raw: the value of c in the query string as sent; compId: params.get('c');
\* path: <<>> or <<the folder whose index.vue vuePath names>>; called: whether
\* compileForClient was called, err and steps what it threw and did;
\* code and body: the response.
NoEp ==
  [raw |-> <<>>, compId |-> <<>>, path |-> <<>>, called |-> FALSE, err |-> "",
   steps |-> <<>>, code |-> 0, body |-> <<>>]

\* The process: made is whether Ore's private #db holds a Db instance,
\* exited whether process.exit(0) was called, disconnects how many times
\* shutdown called disconnect().
NoProc == [made |-> FALSE, exited |-> FALSE, disconnects |-> 0]

InitAux ==
  /\ conv = <<>>
  /\ st = <<>>
  /\ proc = NoProc

InitSvc ==
  /\ scanUse = <<>>
  /\ ep = NoEp
  /\ script = <<>>
  /\ clientOut = <<>>
  /\ InitDb
  /\ InitAux

InitDoc ==
  /\ made = {}
  /\ win = <<>>

Init ==
  /\ InitStore /\ InitRoute /\ InitScan /\ InitDoc /\ InitSvc

Next ==
  \/ \E r \in Reqs, c \in Routes : RouteStart(r, c)
  \/ \E r \in Reqs : HandlerImported(r)
  \/ \E r \in Reqs : HandlerImportFails(r)
  \/ \E r \in Reqs, k \in Keys, v \in Vals : HandlerAssign(r, k, v)
  \/ \E r \in Reqs : HandlerThrows(r)
  \/ \E r \in Reqs : HandlerThrowsNull(r)
  \/ \E r \in Reqs : RenderStart(r)
  \/ \E r \in Reqs, found \in BOOLEAN : TplImportDone(r, found)
  \/ \E r \in Reqs, found \in BOOLEAN : ScriptImportDone(r, found)
  \/ \E r \in Reqs, bytes \in RandomDraws : RenderDone(r, bytes)
  \/ \E r \in Reqs : RenderThrows(r)
  \/ Tick

Spec == Init /\ [][Next]_vars

(***************************************************************************)
(* The store specification: one caller drives the store API.               *)
(***************************************************************************)
NextStore ==
  \/ \E k \in Keys, v \in Vals : ApiAssign(k, v)
  \/ ApiGetAll
  \/ \E k \in Keys : ApiGet(k)
  \/ ApiReset
  \/ \E o \in held, k \in Keys, v \in Vals : CallerPut(o, k, v)
  \/ \E o \in held, k \in Keys : CallerDelete(o, k)
  \/ \E o \in held : CallerDrop(o)

SpecStore == Init /\ [][NextStore]_vars

(***************************************************************************)
(* The resolver specification: scanSubComponents on every template of at   *)
(* most MaxTplLen characters, with every choice of index.vue files.        *)
(***************************************************************************)
ScanAlphabet == {"<", "S", "s", "-"}

\* The folders that may hold an index.vue: S maps to s, SS and Ss map to ss.
ScanFolders == { <<"s">>, <<"s", "s">> }

Templates == UNION { [1..n -> ScanAlphabet] : n \in 0..MaxTplLen }

InitResolver ==
  /\ InitStore /\ InitRoute /\ InitDoc /\ InitSvc
  /\ tpl \in Templates
  /\ disk \in SUBSET ScanFolders
  /\ scanOut = <<>>

Scan ==
  /\ scanOut = <<>>
  /\ scanOut' = <<scanSubComponents(tpl, disk)>>
  /\ UNCHANGED <<heap, assignments, storeVars, routeVars, tpl, disk, docVars, svcVars>>

\* render() with the resolver's result: each entry is compiled and registered
\* for the server, and imported and registered by the document's bootstrap.
Register ==
  /\ scanOut # <<>>
  /\ scanUse = <<>>
  /\ scanUse' =
       << [ compiled |-> CompiledIds(scanOut[1]),
            doc      |-> Document(Fragment(EmptyObj, RegisteredNames(scanOut[1])),
                                  <<>>, EmptyObj, <<"s">>, <<>>, scanOut[1]) ] >>
  /\ UNCHANGED <<heap, assignments, storeVars, routeVars, scanVars, docVars, ep, script, clientOut, db, cl, auxVars>>

NextScan == Scan \/ Register

SpecScan == InitResolver /\ [][NextScan]_vars

RECURSIVE SeqsUpTo(_, _)
SeqsUpTo(S, n) ==
  IF n = 0 THEN {<<>>}
  ELSE LET shorter == SeqsUpTo(S, n - 1)
       IN  shorter \cup { Append(q, x) : q \in shorter, x \in S }

(***************************************************************************)
(* The name specification: compNameToFolderId on one component name.       *)
(***************************************************************************)
NameAlphabet == {"S", "C", "a", "2"}

\* The names converted: [A-Z][a-zA-Z0-9]* over NameAlphabet.
CompNames ==
  { n \in SeqsUpTo(NameAlphabet, MaxNameLen) : n # <<>> /\ IsUpper(n[1]) }

Convert(name) ==
  /\ conv = <<>>
  /\ conv' = << [name |-> name, id |-> compNameToFolderId(name)] >>
  /\ UNCHANGED <<heap, assignments, storeVars, routeVars, scanVars, docVars,
                 scanUse, ep, script, clientOut, db, cl, st, proc>>

NextName == \E name \in CompNames : Convert(name)

SpecName == Init /\ [][NextName]_vars

(***************************************************************************)
(* The static-file specification: the static branch of the request handler *)
(* of www/index.js.  A path is the sequence of its segments; a file path  *)
(* starts at the directory that holds www/, classes/ and components/.      *)
(***************************************************************************)
PathSegments == {"css", "images", "..", "main.css", "logo.png", "index.js", "classes", "Db.js"}

\* req.url.split('?')[0] of the requests made: "/" and the segments joined by "/".
UrlPaths == SeqsUpTo(PathSegments, MaxPathLen) \ {<<>>}

\* The regular files on disk.
FilesOnDisk ==
  { <<"www", "css", "main.css">>, <<"www", "images", "logo.png">>,
    <<"www", "index.js">>, <<"classes", "Db.js">> }

\* const STATIC_DIR = __dirname
STATIC_DIR == <<"www">>

\* const STATIC_PREFIXES = ['/css/', '/images/']
STATIC_PREFIXES == {"css", "images"}

\* STATIC_PREFIXES.some(p => urlPath.startsWith(p))
HasStaticPrefix(urlPath) == Len(urlPath) >= 2 /\ urlPath[1] \in STATIC_PREFIXES

\* path.join normalises its result: a ".." segment removes the segment before
\* it (and stays where there is none).
RECURSIVE PathNormalize(_, _)
PathNormalize(done, rest) ==
  IF rest = <<>> THEN done
  ELSE IF Head(rest) = ".." /\ done # <<>> /\ done[Len(done)] # ".."
    THEN PathNormalize(SubSeq(done, 1, Len(done) - 1), Tail(rest))
    ELSE PathNormalize(Append(done, Head(rest)), Tail(rest))

\* path.join(STATIC_DIR, urlPath)
PathJoin(dir, urlPath) == PathNormalize(<<>>, dir \o urlPath)

\* The handler on a request for urlPath, up to the router: the response of
\* the static branch (the file streamed, or 404), or routed.
StaticRequest(urlPath) ==
  /\ st = <<>>
  /\ st' =
       IF HasStaticPrefix(urlPath)
         THEN LET filePath == PathJoin(STATIC_DIR, urlPath)
              IN  IF filePath \in FilesOnDisk
                    THEN << [url |-> urlPath, code |-> 200, file |-> filePath, routed |-> FALSE] >>
                    ELSE << [url |-> urlPath, code |-> 404, file |-> <<>>, routed |-> FALSE] >>
         ELSE << [url |-> urlPath, code |-> 0, file |-> <<>>, routed |-> TRUE] >>
  /\ UNCHANGED <<heap, assignments, storeVars, routeVars, scanVars, docVars,
                 scanUse, ep, script, clientOut, db, cl, conv, proc>>

NextStatic == \E urlPath \in UrlPaths : StaticRequest(urlPath)

SpecStatic == Init /\ [][NextStatic]_vars

(***************************************************************************)
(* The server specification: the request handler of www/index.js, with     *)
(* one request to /ore/component.js and one page request passed to the     *)
(* router.                                                                 *)
(***************************************************************************)
\* The characters of a c value in a query string; "%2E" is an escaped ".".
RawAlphabet == {".", "/", "h", "%2E"}

\* The c values requested: short ones over RawAlphabet, and the folder ids.
RawIds == SeqsUpTo(RawAlphabet, MaxIdLen) \cup Routes \cup {<<".", "/">> \o HomeId}

\* A query string read without decoding.
MutParamCKeepsEscapes(raw) == raw

\* new URLSearchParams(...).get('c') ?? '': escapes are decoded.
ParamC(raw) ==
  [i \in DOMAIN raw |->
     IF raw[i] = "%2E" THEN "."
     ELSE IF raw[i] = "%2F" THEN "/"
     ELSE IF raw[i] = "%3C" THEN "<"
     ELSE IF raw[i] = "%3E" THEN ">"
     ELSE IF raw[i] = "%20" THEN " "
     ELSE raw[i]]

\* compId.includes('..')
IncludesDotDot(compId) ==
  \E i \in 1..(Len(compId) - 1) : compId[i] = "." /\ compId[i + 1] = "."

\* A guard that tests nothing.
MutStartsWithNever(compId) == FALSE

\* compId.startsWith('/')
StartsWithSlash(compId) == compId # <<>> /\ compId[1] = "/"

\* The segment of path p that starts at position i.
RECURSIVE SegmentFrom(_, _)
SegmentFrom(p, i) ==
  IF i > Len(p) \/ p[i] = "/" THEN <<>> ELSE <<p[i]>> \o SegmentFrom(p, i + 1)

\* path.join(componentsRoot, compId, 'index.vue'), by the folder under
\* components/ it names: empty and "." segments are dropped, the others are
\* joined with "/".
RECURSIVE JoinFrom(_, _)
JoinFrom(p, i) ==
  IF i > Len(p) THEN <<>>
  ELSE LET seg  == SegmentFrom(p, i)
           rest == JoinFrom(p, i + Len(seg) + 1)
       IN  IF seg = <<>> \/ seg = <<".">> THEN rest
           ELSE IF rest = <<>> THEN seg
           ELSE seg \o <<"/">> \o rest

\* The handler of /ore/component.js.
ComponentEndpoint(raw) ==
  LET compId == ParamC(raw)
  IN  IF compId = <<>> \/ IncludesDotDot(compId) \/ StartsWithSlash(compId)
        THEN [NoEp EXCEPT !.raw = raw, !.compId = compId,
                          !.code = 400, !.body = <<"Bad Request">>]
        ELSE LET vuePath == JoinFrom(compId, 1)
                 out     == compileForClient(vuePath)
             IN  [raw |-> raw, compId |-> compId, path |-> <<vuePath>>,
                  called |-> TRUE, err |-> out.err, steps |-> out.steps,
                  code |-> IF out.err = "" THEN 200 ELSE 500,
                  body |-> IF out.err = "" THEN out.module
                           ELSE <<"Internal Server Error">>]

EndpointRequest(raw) ==
  /\ ep = NoEp
  /\ ep' = ComponentEndpoint(raw)
  /\ UNCHANGED <<heap, assignments, storeVars, routeVars, scanVars, docVars,
                 scanUse, script, clientOut, db, cl, auxVars>>

\* await Ore.router.route(req, res) for the page request.
PageRequest(r) ==
  \/ \E c \in Routes : RouteStart(r, c)
  \/ HandlerImported(r)
  \/ HandlerImportFails(r)
  \/ \E k \in Keys, v \in Vals : HandlerAssign(r, k, v)
  \/ HandlerThrows(r)
  \/ HandlerThrowsNull(r)
  \/ RenderStart(r)
  \/ \E found \in BOOLEAN : TplImportDone(r, found)
  \/ \E found \in BOOLEAN : ScriptImportDone(r, found)
  \/ \E bytes \in RandomDraws : RenderDone(r, bytes)
  \/ RenderThrows(r)

NextServer ==
  \/ \E raw \in RawIds : EndpointRequest(raw)
  \/ PageRequest(1)

SpecServer == Init /\ [][NextServer]_vars

\* The default-export statements of a module: the text `export default`
\* outside strings and comments, and the exports compileForClient appends.
RECURSIVE DefaultExportsFrom(_, _, _)
DefaultExportsFrom(text, i, mode) ==
  IF i > Len(text) THEN {}
  ELSE LET ch   == text[i]
           next == IF mode = "code" /\ ch = "q" THEN "str"
                   ELSE IF mode = "code" /\ ch = "#" THEN "cmt"
                   ELSE IF mode = "str" /\ ch = "q" THEN "code"
                   ELSE IF mode = "cmt" /\ ch = "#" THEN "code"
                   ELSE mode
       IN  (IF mode = "code" /\ ch \in {"E", "D", "A"} THEN {i} ELSE {})
             \cup DefaultExportsFrom(text, i + 1, next)

DefaultExports(text) == DefaultExportsFrom(text, 1, "code")

(***************************************************************************)
(* The client-compile specification: compileForClient on a component with  *)
(* a script section whose compiled script has one default export.          *)
(***************************************************************************)
\* The mode (code, string, comment) in which the text ends.
RECURSIVE EndMode(_, _, _)
EndMode(text, i, mode) ==
  IF i > Len(text) THEN mode
  ELSE EndMode(text, i + 1,
               IF mode = "code" /\ text[i] = "q" THEN "str"
               ELSE IF mode = "code" /\ text[i] = "#" THEN "cmt"
               ELSE IF mode = "str" /\ text[i] = "q" THEN "code"
               ELSE IF mode = "cmt" /\ text[i] = "#" THEN "code"
               ELSE mode)

\* What compileScript returns for an SFC script: well-formed text with
\* exactly one default export, which exports something.
Scripts ==
  { t \in SeqsUpTo(ScriptAlphabet, MaxScriptLen) :
      /\ EndMode(t, 1, "code") = "code"
      /\ Cardinality(DefaultExports(t)) = 1
      /\ \A i \in DefaultExports(t) : i < Len(t) /\ t[i + 1] \in {" ", "{"} }

InitCompile ==
  /\ InitStore /\ InitRoute /\ InitScan /\ InitDoc
  /\ scanUse = <<>>
  /\ ep = NoEp
  /\ script \in Scripts
  /\ clientOut = <<>>
  /\ InitDb
  /\ InitAux

CompileScripted ==
  /\ clientOut = <<>>
  /\ clientOut' = <<ClientModule(<<script>>, TemplateCode)>>
  /\ UNCHANGED <<heap, assignments, storeVars, routeVars, scanVars, docVars,
                 scanUse, ep, script, db, cl, auxVars>>

SpecCompile == InitCompile /\ [][CompileScripted]_vars

(***************************************************************************)
(* The database specification: one Db instance and the callers of its      *)
(* query methods.  A connection is named by the attempt that opened it.    *)
(***************************************************************************)
\* _ensureConnected() without the test of this._pending.
MutEnsureConnectedNoGuard(d) ==
  IF d.connection # 0
    THEN [db |-> d, awaits |-> 0, conn |-> d.connection]
    ELSE [db |-> [d EXCEPT !.pending = d.started + 1, !.started = d.started + 1,
                           !.inflight = @ \cup {d.started + 1}],
          awaits |-> d.started + 1, conn |-> 0]

\* _ensureConnected(): the Db afterwards and what the caller is handed.
EnsureConnected(d) ==
  IF d.connection # 0
    THEN [db |-> d, awaits |-> 0, conn |-> d.connection]
  ELSE IF d.pending = 0
    THEN [db |-> [d EXCEPT !.pending = d.started + 1, !.started = d.started + 1,
                           !.inflight = @ \cup {d.started + 1}],
          awaits |-> d.started + 1, conn |-> 0]
  ELSE [db |-> d, awaits |-> d.pending, conn |-> 0]

\* Ore.db (which creates the Db on first use), then fetchAllRows, fetchRow
\* (through fetchAllRows) or execute is called and runs to
\* `await this._ensureConnected()`.
Query(p, method) ==
  /\ ~proc.exited
  /\ proc' = [proc EXCEPT !.made = TRUE]
  /\ cl[p].at \in {"idle", "done"}
  /\ LET e == EnsureConnected(db)
     IN  /\ e.db.started <= MaxConnects
         /\ db' = e.db
         /\ cl' = [cl EXCEPT ![p] = [at |-> "waiting", method |-> method,
                                     awaits |-> e.awaits, conn |-> e.conn]]
  /\ UNCHANGED <<heap, assignments, storeVars, routeVars, scanVars, docVars,
                 scanUse, ep, script, clientOut, conv, st>>

\* _connect() of attempt a resolves: the then callback sets the connection
\* and clears this._pending.
ConnectResolves(a) ==
  /\ ~proc.exited
  /\ a \in db.inflight
  /\ db' = [db EXCEPT !.connection = a, !.pending = 0, !.inflight = @ \ {a}]
  /\ UNCHANGED <<heap, assignments, storeVars, routeVars, scanVars, docVars,
                 scanUse, ep, script, clientOut, cl, auxVars>>

\* _connect() of attempt a rejects, as the driver's connect call in its body
\* can: the then callback, the only one attached, does not run, and the
\* promise in this._pending is rejected.
ConnectRejects(a) ==
  /\ ~proc.exited
  /\ a \in db.inflight
  /\ db' = [db EXCEPT !.inflight = @ \ {a}, !.failed = @ \cup {a}]
  /\ UNCHANGED <<heap, assignments, storeVars, routeVars, scanVars, docVars,
                 scanUse, ep, script, clientOut, cl, auxVars>>

\* The caller's await yields the connection, or throws the attempt's error.
QueryResumes(p) ==
  /\ ~proc.exited
  /\ cl[p].at = "waiting"
  /\ cl[p].awaits \notin db.inflight
  /\ cl' = [cl EXCEPT ![p].at = "done",
                      ![p].conn = IF cl[p].awaits = 0 THEN @
                                  ELSE IF cl[p].awaits \in db.failed THEN -1
                                  ELSE cl[p].awaits]
  /\ UNCHANGED <<heap, assignments, storeVars, routeVars, scanVars, docVars,
                 scanUse, ep, script, clientOut, db, auxVars>>

\* disconnect(): the mock connection has no end(), so nothing is awaited.
Disconnect ==
  /\ ~proc.exited
  /\ db' = [db EXCEPT !.connection = 0]
  /\ UNCHANGED <<heap, assignments, storeVars, routeVars, scanVars, docVars,
                 scanUse, ep, script, clientOut, cl, auxVars>>

\* Ore._db in shutdown(): OreClass keeps the instance in the private field
\* #db and defines no property _db, so the read yields undefined whether or
\* not a Db was made.
OreUnderscoreDb(pr) == FALSE

\* shutdown() on SIGTERM or SIGINT:
\*   server.close(); if (Ore._db) await Ore.db.disconnect(); process.exit(0)
Shutdown ==
  /\ ~proc.exited
  /\ IF OreUnderscoreDb(proc)
       THEN /\ proc' = [proc EXCEPT !.made = TRUE, !.disconnects = @ + 1,
                                    !.exited = TRUE]
            /\ db' = [db EXCEPT !.connection = 0]
       ELSE /\ proc' = [proc EXCEPT !.exited = TRUE]
            /\ db' = db
  /\ UNCHANGED <<heap, assignments, storeVars, routeVars, scanVars, docVars,
                 scanUse, ep, script, clientOut, cl, conv, st>>

NextDb ==
  \/ \E p \in Callers, method \in QueryMethods : Query(p, method)
  \/ \E a \in 1..MaxConnects : ConnectResolves(a)
  \/ \E a \in 1..MaxConnects : ConnectRejects(a)
  \/ \E p \in Callers : QueryResumes(p)
  \/ Disconnect
  \/ Shutdown

SpecDb == Init /\ [][NextDb]_vars

(***************************************************************************)
(* The document specification: documents as render() returns them, and a   *)
(* browser page that runs their state scripts in any order.                *)
(***************************************************************************)
\* The objects render() finds in `assignments` in this specification.
DocAssigned == { EmptyObj, [x |-> 0], [x |-> 0, y |-> 2] }

\* window.__ORE_STATE__ = {} in place of the `|| {}` default.
MutStateScriptReplace(w, doc) ==
  << [id \in {doc.stateKey} |-> JSONParse(doc.state)] >>

\* <script>window.__ORE_STATE__ = window.__ORE_STATE__ || {};
\*         window.__ORE_STATE__['<stateKey>'] = <state>;</script>
\* w is <<>> (the global is undefined) or <<the mapping>>.
StateScript(w, doc) ==
  LET base == IF w = <<>> THEN [id \in {} |-> EmptyObj] ELSE w[1]
  IN  << [id \in DOMAIN base \cup {doc.stateKey} |->
            IF id = doc.stateKey THEN JSONParse(doc.state) ELSE base[id]] >>

\* render() returns a document.
Assemble(c, assigned, hasSetup, bytes) ==
  /\ Cardinality(made) < MaxDocs
  /\ made' = made \cup { [draw |-> bytes, assigned |-> assigned,
                          doc |-> RenderTail(c, assigned, hasSetup, bytes)] }
  /\ UNCHANGED <<heap, assignments, storeVars, routeVars, scanVars, win, svcVars>>

\* The browser runs the state script of a document on the page.
PageExec(m) ==
  /\ m \in made
  /\ win' = StateScript(win, m.doc)
  /\ UNCHANGED <<heap, assignments, storeVars, routeVars, scanVars, made, svcVars>>

NextDoc ==
  \/ \E c \in {HomeId}, a \in DocAssigned, hasSetup \in BOOLEAN, bytes \in RandomDraws :
       Assemble(c, a, hasSetup, bytes)
  \/ \E m \in made : PageExec(m)

SpecDoc == Init /\ [][NextDoc]_vars

(***************************************************************************)
(* Properties.                                                             *)
(***************************************************************************)
Docs200 == { r \in Reqs : resp[r].code = 200 }

DocOf(r) == resp[r].html[1]

\* C1: for every request, the snapshot of the store that its render() takes
\* holds exactly the keys and values that the same request's handler assigned
\* since that request's reset(), also when requests interleave at awaits.
C1_SnapshotIsOwn == \A r \in Reqs : hist[r].snapOwn

\* C2: reset() runs before the handler is imported and invoked, so the store
\* is empty when the request's handler starts.
C2_EmptyAtHandlerStart == \A r \in Reqs : hist[r].emptyAtStart

\* C3: assign returns the store; the store holds, and getAll() and get()
\* return, exactly the value last assigned to each key since the last reset(),
\* whatever the caller does to the objects earlier getAll() calls returned.
C3_StoreHoldsLastAssigned ==
  /\ heap[assignments] = expected
  /\ lastRet.op = "assign" => lastRet.this
  /\ lastRet.op = "getAll" => lastRet.obj = expected
  /\ lastRet.op = "get" =>
       lastRet.val = IF lastRet.key \in DOMAIN expected
                       THEN <<expected[lastRet.key]>> ELSE <<>>

\* C3 witness: with both keys assigned, getAll() has just returned while the
\* caller holds an earlier result that it changed.
C3_Witness ==
  /\ lastRet.op = "getAll"
  /\ DOMAIN expected = Keys
  /\ \E o \in held : o # lastRet.ref /\ heap[o] # expected

\* What the setup function of a served request's component returned: nothing
\* when the component has none or its script module did not load.
SetupReturned(r) ==
  IF route[r] \in SetupComps /\ ~(\E e \in hist[r].caught : e[1] = 0)
    THEN SetupResultOf(route[r])
    ELSE EmptyObj

FilesOf(r) == { n \in DOMAIN files : files[n] = r }

\* C5: a temporary file exists only while the load that wrote it awaits its
\* import: none written by a request is left once the load has returned or
\* thrown, and so none once render() has settled.
C5_TempFilesRemoved ==
  \A r \in Reqs :
    FilesOf(r) \subseteq (IF pc[r] \in Importing THEN {CurName(r)} ELSE {})

\* C5 witness: one render has failed on a throwing import, another has
\* succeeded, and no temporary file is left.
C5_Witness ==
  /\ \E r \in Reqs : pc[r] = "done" /\ resp[r].message = "eval" /\ hist[r].evalThrew
  /\ \E r \in Reqs : pc[r] = "done" /\ resp[r].code = 200
  /\ DOMAIN files = {}

\* C6: when a generated module (template or script) throws while it is
\* evaluated, render() fails: the request is answered with an error.
C6_EvalErrorReachesCaller ==
  \A r \in Reqs : (pc[r] = "done" /\ hist[r].evalThrew) => resp[r].code = 500

\* C7: two loads in flight at the same time use different file names.
C7_DistinctFileNames ==
  \A r1, r2 \in Reqs :
    (r1 # r2 /\ pc[r1] \in Importing /\ pc[r2] \in Importing)
      => CurName(r1) # CurName(r2)

\* C8 as stated: any two renders produce different instance identifiers.
C8_IdsAlwaysDiffer ==
  \A r1, r2 \in Docs200 : r1 # r2 => DocOf(r1).stateKey # DocOf(r2).stateKey

\* C8 as amended: two renders whose randomBytes(6) draws differ produce
\* different instance identifiers, hence different state-blob keys, bootstrap
\* keys and mount-node ids.
C8_IdsDifferWhenDrawsDiffer ==
  \A r1, r2 \in Docs200 :
    hist[r1].draw # hist[r2].draw =>
      /\ DocOf(r1).stateKey # DocOf(r2).stateKey
      /\ DocOf(r1).bootKey # DocOf(r2).bootKey
      /\ DocOf(r1).mountSel # DocOf(r2).mountSel
      /\ DocOf(r1).divId # DocOf(r2).divId

\* C8 witness: two renders of the same component with different draws.
C8_Witness ==
  \E r1, r2 \in Docs200 :
    /\ r1 # r2
    /\ route[r1] = route[r2]
    /\ hist[r1].draw # hist[r2].draw

\* window.__ORE_STATE__ || {}
StateMap(w) == IF w = <<>> THEN [id \in {} |-> EmptyObj] ELSE w[1]

\* C9: a document uses one instance id, its render's, as the key of its state
\* entry, the key its bootstrap reads and the id of its mount node; running
\* its state script writes that one entry and leaves every other entry of
\* the page's mapping as it was.
C9_OneEntryPerInstance ==
  /\ [](\A m \in made :
          /\ m.doc.stateKey = ToHex(m.draw)
          /\ m.doc.bootKey = m.doc.stateKey
          /\ m.doc.mountSel = m.doc.stateKey
          /\ m.doc.divId = m.doc.stateKey)
  /\ [][win' # win =>
          \E m \in made :
            /\ DOMAIN StateMap(win') = DOMAIN StateMap(win) \cup {ToHex(m.draw)}
            /\ StateMap(win')[ToHex(m.draw)] = m.assigned
            /\ \A id \in DOMAIN StateMap(win) \ {ToHex(m.draw)} :
                 StateMap(win')[id] = StateMap(win)[id]]_vars

\* C9 witness: the page holds the entries of two documents.
C9_Witness == win # <<>> /\ Cardinality(DOMAIN win[1]) = 2

\* [A-Z][a-zA-Z0-9]*
IsComponentName(n) ==
  /\ n # <<>>
  /\ IsUpper(n[1])
  /\ \A i \in DOMAIN n : IsAlnum(n[i])

\* C10: scanSubComponents returns no name twice, and every name it returns
\* begins with an uppercase letter, consists of letters and digits, and
\* stands in the template right behind a "<"; a tag that begins with a
\* lowercase letter yields nothing.
C10_ScanDedupUppercase ==
  scanOut # <<>> =>
    LET out == scanOut[1]
    IN  /\ \A i, j \in DOMAIN out : i # j => out[i].name # out[j].name
        /\ \A i \in DOMAIN out :
             /\ IsComponentName(out[i].name)
             /\ \E p \in DOMAIN tpl :
                  /\ tpl[p] = "<"
                  /\ p + Len(out[i].name) <= Len(tpl)
                  /\ SubSeq(tpl, p + 1, p + Len(out[i].name)) = out[i].name

\* C10 witness: <S<s<S resolves to the one entry S.
C10_Witness ==
  /\ tpl = <<"<", "S", "<", "s", "<", "S">>
  /\ scanOut # <<>>
  /\ Len(scanOut[1]) = 1
  /\ scanOut[1][1].name = <<"S">>

\* The names the pattern <([A-Z][a-zA-Z0-9]*) matches in template t: behind
\* every "<" that an uppercase letter follows, the longest run of letters
\* and digits.
ScannedNames(t) ==
  { SubSeq(t, p + 1,
           CHOOSE e \in (p + 1)..Len(t) :
             /\ \A j \in (p + 1)..e : IsAlnum(t[j])
             /\ e = Len(t) \/ ~IsAlnum(t[e + 1])) :
      p \in { q \in 1..(Len(t) - 1) : t[q] = "<" /\ IsUpper(t[q + 1]) } }

\* C11: the resolver returns a scanned name if and only if the index.vue of
\* its folder id exists; a name whose file does not exist raises nothing and
\* is neither compiled, nor registered on the server, nor imported or
\* registered by the client bootstrap.
C11_ResolvedIffFileExists ==
  LET existing == { n \in ScannedNames(tpl) : compNameToFolderId(n) \in disk }
  IN  /\ scanOut # <<>> =>
           /\ Range(RegisteredNames(scanOut[1])) = existing
           /\ \A i \in DOMAIN scanOut[1] :
                scanOut[1][i].id = compNameToFolderId(scanOut[1][i].name)
      /\ scanUse # <<>> =>
           LET use == scanUse[1]
           IN  /\ Range(use.compiled) = { compNameToFolderId(n) : n \in existing }
               /\ Range(use.doc.body.components) = existing
               /\ Range(use.doc.subRegistrations) = existing
               /\ { i.name : i \in Range(use.doc.subImports) } = existing

\* C11 witness: <S<SS with only components/s/index.vue on disk: S is
\* resolved, compiled, registered and imported, SS is dropped.
C11_Witness ==
  /\ tpl = <<"<", "S", "<", "S", "S">>
  /\ disk = {<<"s">>}
  /\ scanUse # <<>>
  /\ scanUse[1].compiled = << <<"s">> >>
  /\ scanUse[1].doc.subRegistrations = << <<"S">> >>

\* C12: a request to /ore/component.js whose c is empty, contains "..", or
\* starts with "/" is answered 400 before a path is built from it:
\* compileForClient is not called and no file is looked at.
C12_TraversalRejected ==
  (ep.code # 0 /\ (ep.compId = <<>>
                     \/ (\E i \in 1..(Len(ep.compId) - 1) : SubSeq(ep.compId, i, i + 1) = <<".", ".">>)
                     \/ SubSeq(ep.compId, 1, 1) = <<"/">>))
    => /\ ep.code = 400
       /\ ~ep.called
       /\ ep.path = <<>>
       /\ ep.steps = <<>>

\* C12 witness: c=h%2E. has been answered 400.
C12_Witness ==
  /\ ep.raw = <<"h", "%2E", ".">>
  /\ ep.code = 400
  /\ ~ep.called

\* C13: for a component without a script section compileForClient returns
\* the compiled client template followed by one default export, the object
\* holding the render function only; the named export render is in it.
C13_NoScriptRenderOnly ==
  (ep.called /\ ep.err = "" /\ ScriptKindOf(ep.path[1]) = "none")
    => /\ ep.code = 200
       /\ ep.body = TemplateCode \o <<"n", "D">>
       /\ Cardinality(DefaultExports(ep.body)) = 1
       /\ \E i \in DOMAIN ep.body : ep.body[i] = "R"

\* C13 witness: par/index.vue, which has a template and no script, compiled.
C13_Witness ==
  /\ ep.called
  /\ ep.path = <<ParId>>
  /\ ep.code = 200
  /\ ep.body = <<"R", "n", "D">>

\* C14: for a component with a script section, compileForClient rewrites the
\* script's one real default export into the binding __sfc__ and nothing
\* else: `export default` inside a string or a comment stays as it is, and
\* the module returned has exactly one default export, the merged one.
C14_RewritesRealExportOnce ==
  clientOut # <<>> =>
    LET real == CHOOSE i \in DefaultExports(script) : TRUE
        want == SubSeq(script, 1, real - 1) \o <<"S">>
                  \o SubSeq(script, SpaceEnd(script, real + 1) + 1, Len(script))
    IN  /\ clientOut[1] = want \o <<"n">> \o TemplateCode \o <<"n", "A">>
        /\ Cardinality(DefaultExports(clientOut[1])) = 1

\* C15: render() and compileForClient() of a location that does not exist
\* fail with the not-found error, and before anything else: nothing is read,
\* parsed or compiled, no temporary file is written, no instance id is
\* drawn and the store is left as it is.
C15_NotFoundBeforeAnything ==
  /\ []((ep.called /\ ep.path[1] \notin VueOnDisk) =>
          /\ ep.err = "notfound"
          /\ ep.steps = <<"exists">>
          /\ ep.code = 500)
  /\ [](\A r \in Reqs :
          (pc[r] = "done" /\ route[r] \in JsOnDisk \ VueOnDisk
             /\ resp[r].message \notin {"import", "handler"}) =>
            /\ resp[r].message = "notfound"
            /\ resp[r].code = 500
            /\ hist[r].draw = <<>>)
  /\ [][\A r \in Reqs :
          (pc[r] = "handler" /\ pc'[r] \notin {"handler", "escaped"}
             /\ route[r] \notin VueOnDisk /\ resp'[r].message # "handler") =>
            /\ pc'[r] = "done"
            /\ files' = files
            /\ heap' = heap
            /\ assignments' = assignments]_vars

\* C15 witness: the page request for novue, whose handler assigned y, failed
\* in render() with the store still holding y, and /ore/component.js?c=novue
\* failed in compileForClient.
C15_Witness ==
  /\ pc[1] = "done"
  /\ route[1] = NoVueId
  /\ resp[1].message = "notfound"
  /\ heap[assignments] = [y |-> 0]
  /\ ep.called
  /\ ep.path = <<NoVueId>>
  /\ ep.err = "notfound"

\* C16: no error escapes route(), and every request ends with one response:
\* 404 exactly when the route has no index.js, 200 with the document when
\* handler and render succeed, 500 with the error's message otherwise.
C16_EveryRequestAnswered ==
  \A r \in Reqs :
    /\ pc[r] # "escaped"
    /\ resp[r].code # 0 => pc[r] = "done"
    /\ pc[r] = "done" =>
         /\ resp[r].code \in {404, 200, 500}
         /\ resp[r].code = 404 <=> route[r] \notin JsOnDisk
         /\ resp[r].code = 200 => resp[r].html # <<>>
         /\ resp[r].code = 500 => resp[r].message # ""

\* C17: at most one connection attempt is in flight at any time; a caller
\* suspended on an attempt in flight awaits the one attempt there is and
\* receives its connection (or its error, if it fails); and _connect() is called only when there is
\* neither a connection nor an attempt in flight.
C17_SingleFlightConnect ==
  /\ [](Cardinality(db.inflight) <= 1)
  /\ [](\A p \in Callers :
          /\ (cl[p].at = "waiting" /\ cl[p].awaits \in db.inflight) =>
               db.inflight = {cl[p].awaits}
          /\ (cl[p].at = "done" /\ cl[p].awaits # 0) =>
               cl[p].conn = IF cl[p].awaits \in db.failed THEN -1 ELSE cl[p].awaits)
  /\ [][db'.started # db.started =>
          /\ db'.started = db.started + 1
          /\ db.connection = 0
          /\ db.inflight = {}]_vars

\* C17 witness: both callers were handed the first attempt while it was in
\* flight, and both received its connection; _connect() was called once.
C17_Witness ==
  /\ db.started = 1
  /\ db.connection = 1
  /\ \A p \in Callers : cl[p].at = "done" /\ cl[p].awaits = 1 /\ cl[p].conn = 1

\* The components of a served request's render: the top-level one and the
\* resolved sub-components.
RenderedComps(r) == {route[r]} \cup Range(CompiledIds(SubComps(route[r])))

\* C18: parser diagnostics, a missing template, template compile
\* diagnostics and a script module that throws while it is loaded, in the
\* top-level component or in a sub-component, each make render() fail: no
\* request whose render met one of them is served a document.
C18_NoErrorSwallowed ==
  \A r \in Docs200 :
    /\ RenderedComps(r) \cap (ParseErrorComps \cup NoTemplateComps \cup TplErrorComps) = {}
    /\ \A e \in hist[r].caught : e[2] # "eval"

\* The style sections of the components ids[i..], in order.
RECURSIVE StylesFrom(_, _)
StylesFrom(ids, i) ==
  IF i > Len(ids) THEN <<>> ELSE StylesOf(ids[i]) \o StylesFrom(ids, i + 1)

\* C19: a document holds the style sections of every component of its
\* render: the top-level component's, then those of the resolved
\* sub-components in resolution order.
C19_StylesOfEveryComponent ==
  \A r \in Docs200 :
    DocOf(r).styles =
      StylesOf(route[r]) \o StylesFrom(CompiledIds(SubComps(route[r])), 1)

\* C20: every reference in the template of a resolved sub-component whose
\* file exists is itself compiled and registered for the server, and
\* imported and registered by the client bootstrap.
C20_NestedComponentsResolved ==
  \A r \in Docs200 :
    \A i \in DOMAIN SubComps(route[r]) :
      \A n \in Range(RegisteredNames(SubComps(SubComps(route[r])[i].id))) :
        /\ n \in Range(DocOf(r).body.components)
        /\ n \in Range(DocOf(r).subRegistrations)
        /\ n \in { e.name : e \in Range(DocOf(r).subImports) }

\* Where name n first stands in template t as a whole tag name.
FirstAppearance(t, n) ==
  LET at == { p \in 1..(Len(t) - Len(n)) :
                /\ t[p] = "<"
                /\ SubSeq(t, p + 1, p + Len(n)) = n
                /\ p + Len(n) = Len(t) \/ ~IsAlnum(t[p + Len(n) + 1]) }
  IN  CHOOSE p \in at : \A q \in at : p <= q

\* C21: the resolver returns its entries in the order in which their names
\* first appear in the template; render() compiles and registers the
\* sub-components on the server in that order, and the client bootstrap
\* imports and registers them in that order, under the same names as the
\* server.
C21_OrderPreserved ==
  scanUse # <<>> =>
    LET out   == scanOut[1]
        use   == scanUse[1]
        names == [i \in DOMAIN out |-> out[i].name]
    IN  /\ \A i, j \in DOMAIN out :
             i < j => FirstAppearance(tpl, out[i].name) < FirstAppearance(tpl, out[j].name)
        /\ use.compiled = [i \in DOMAIN out |-> out[i].id]
        /\ use.doc.body.components = names
        /\ [i \in DOMAIN use.doc.subImports |-> use.doc.subImports[i].name] = names
        /\ \A i \in DOMAIN out : use.doc.subImports[i].c = encodeURIComponent(out[i].id)
        /\ use.doc.subRegistrations = names

\* C21 witness: <SS<S with both folders on disk: SS, then S, on the server
\* and in the bootstrap.
C21_Witness ==
  /\ tpl = <<"<", "S", "S", "<", "S">>
  /\ scanUse # <<>>
  /\ scanUse[1].compiled = << <<"s", "s">>, <<"s">> >>
  /\ scanUse[1].doc.body.components = << <<"S", "S">>, <<"S">> >>
  /\ scanUse[1].doc.subRegistrations = << <<"S", "S">>, <<"S">> >>

\* C22: render() passes through its stages in a fixed order: the top-level
\* component is compiled first (its template, then its script if it has
\* one), then the sub-components one at a time in the resolver's order, then
\* the server render function runs, then the document is assembled.  No
\* stage runs twice, none is skipped, a stage that throws ends the render
\* with an error and nothing runs after it, and a finished render is not
\* started again.
C22_StagesInOrder ==
  [][\A r \in Reqs :
       LET c     == route[r]
           n     == Len(SubComps(c))
           i     == load[r].idx
           moved == <<pc[r], load[r].idx, load[r].ts>> # <<pc'[r], load'[r].idx, load'[r].ts>>
           fails == pc'[r] = "done" /\ resp'[r].code = 500
           next  == \/ i < n /\ pc'[r] = "tplImport" /\ load'[r].idx = i + 1
                    \/ i = n /\ pc'[r] = "rendering"
       IN  /\ (pc[r] = "handler" /\ pc'[r] \in Importing \cup {"rendering"})
              => pc'[r] = "tplImport" /\ load'[r].idx = 0 /\ c \in VueOnDisk
           /\ (pc[r] = "tplImport" /\ moved)
              => \/ fails
                 \/ /\ ScriptKindOf(CompAt(c, i)) # "none"
                    /\ pc'[r] = "scriptImport" /\ load'[r].idx = i
                 \/ ScriptKindOf(CompAt(c, i)) = "none" /\ next
           /\ (pc[r] = "scriptImport" /\ moved) => fails \/ next
           /\ (pc[r] = "rendering" /\ moved) => pc'[r] = "done"
           /\ (resp'[r].code = 200 /\ resp[r].code # 200) => pc[r] = "rendering"
           /\ pc[r] = "done" => pc'[r] = "done" /\ resp'[r] = resp[r]]_vars

\* C22 witness: one request rendered home with its sub-component, another
\* ended with the error of its first compile stage.
C22_Witness ==
  \E r, q \in Reqs :
    /\ route[r] = HomeId /\ pc[r] = "done" /\ resp[r].code = 200
    /\ route[q] = TBoomId /\ pc[q] = "done" /\ resp[q].code = 500

\* The name lower-cased, with a hyphen behind every position in hyphens.
RECURSIVE Hyphenated(_, _, _)
Hyphenated(name, hyphens, i) ==
  IF i > Len(name) THEN <<>>
  ELSE <<ToLowerChar(name[i])>> \o (IF i \in hyphens THEN <<"-">> ELSE <<>>)
         \o Hyphenated(name, hyphens, i + 1)

\* C23 as stated: compNameToFolderId returns the name lower-cased, with a
\* hyphen exactly where a lowercase letter is immediately followed by an
\* uppercase letter.
C23_HyphenAtLowerUpper ==
  conv # <<>> =>
    LET name == conv[1].name
    IN  conv[1].id =
          Hyphenated(name, { i \in 1..(Len(name) - 1) :
                               name[i] \in Range(LowerSeq) /\ IsUpper(name[i + 1]) }, 1)

\* C23: compNameToFolderId returns the name lower-cased, with a hyphen
\* exactly where a lowercase letter or a digit is immediately followed by
\* an uppercase letter, and nowhere else.
C23_HyphenAtLowerOrDigitUpper ==
  conv # <<>> =>
    LET name == conv[1].name
    IN  conv[1].id =
          Hyphenated(name, { i \in 1..(Len(name) - 1) :
                               /\ name[i] \in Range(LowerSeq) \cup Range(DigitSeq)
                               /\ IsUpper(name[i + 1]) }, 1)

\* C23 witness: Sa2C becomes sa2-c, hyphenated behind the digit.
C23_Witness ==
  /\ conv # <<>>
  /\ conv[1].name = <<"S", "a", "2", "C">>
  /\ conv[1].id = <<"s", "a", "2", "-", "c">>

\* C24: no step of render() and no call of compileForClient() changes the
\* assignment store: this._assignments refers to the same object, with the
\* same entries, after the step as before it.
C24_RenderLeavesStore ==
  [][(\/ pc[1] \in Importing \cup {"rendering"}
      \/ /\ pc[1] = "handler"
         /\ \/ pc'[1] \in Importing \cup {"rendering"}
            \/ pc'[1] = "done" /\ resp'[1].message # "handler"
      \/ ep' # ep)
     => /\ assignments' = assignments
        /\ heap'[assignments'] = heap[assignments]]_vars

\* C24 witness: home was rendered and a client module was compiled, and the
\* store still holds what the handler assigned.
C24_Witness ==
  /\ route[1] = HomeId /\ pc[1] = "done" /\ resp[1].code = 200
  /\ ep.called /\ ep.code = 200
  /\ heap[assignments] = [x |-> 0, y |-> 2]

\* C25: render() takes its snapshot of the store once, as a copy; no later
\* assign() or reset() by any request changes that snapshot while the render
\* runs; the state blob of the document is the JSON text of that snapshot,
\* and the rendering context has the snapshot's value for every key the
\* setup result does not define.
C25_StateIsTheSnapshot ==
  [][\A r \in Reqs :
       /\ (snap[r] = 0 /\ snap'[r] # 0)
          => /\ snap'[r] # assignments'
             /\ heap'[snap'[r]] = heap[assignments]
       /\ (snap[r] # 0 /\ pc'[r] # "done")
          => /\ snap'[r] = snap[r]
             /\ heap'[snap[r]] = heap[snap[r]]
       /\ (pc[r] = "rendering" /\ resp'[r].code = 200)
          => LET doc  == resp'[r].html[1]
                 shot == heap[snap[r]]
             IN  /\ doc.state = JSONStringify(shot)
                 /\ JSONParse(doc.state) = shot
                 /\ \A k \in DOMAIN shot :
                      /\ k \in DOMAIN doc.body.ctx
                      /\ k \notin DOMAIN SetupReturned(r) => doc.body.ctx[k] = shot[k]]_vars

\* C25 witness: a render is at renderToString with the snapshot {x: 0, y: 2}
\* while the store, reset or assigned to by the other request, holds
\* something else.
C25_Witness ==
  \E r \in Reqs :
    /\ pc[r] = "rendering"
    /\ heap[snap[r]] = [x |-> 0, y |-> 2]
    /\ heap[assignments] # heap[snap[r]]

C28_ShutdownDisconnects ==
  proc.exited =>
    /\ proc.made => proc.disconnects = 1
    /\ ~proc.made => proc.disconnects = 0

\* C29: the static branch answers with the content of a file only if that
\* file lies inside www/css/ or www/images/, whatever ".." segments the
\* request path has behind its /css/ or /images/ prefix.
C29_StaticStaysInside ==
  (st # <<>> /\ st[1].code = 200) =>
    /\ Len(st[1].file) >= 3
    /\ st[1].file[1] = "www"
    /\ st[1].file[2] \in {"css", "images"}

====
